---- MODULE Spec2Model ----
(***************************************************************************)
(* The proxy session engine of gatewayd (network/proxy.go): the available  *)
(* and busy connection pools, and the Connect, Disconnect, PassThrough and  *)
(* Shutdown handlers, each split at the points where it touches a pool, so  *)
(* that calls for distinct inbound connections interleave as goroutines do. *)
(*                                                                          *)
(* A backend client is identified with its ID (a positive integer); an      *)
(* inbound connection (gnet.Conn) is an element of Conns.                   *)
(***************************************************************************)
EXTENDS Integers, Sequences, FiniteSets, TLC

\* ---------------------------------------------------------------- bounds
MaxCap     == 2   \* largest capacity of the available pool
MaxInit    == 2   \* most backends the pool is populated with at startup
MaxNew     == 1   \* backends constructed by NewClient after startup
MaxSeed    == 12  \* largest seed given to GetID

\* the inbound connections
Conns == {1, 2}

\* ------------------------------------------------------------- constants
EmptyPoolCapacity == 0
\* a nil *Client (the zero value of `var client *Client`)
NilClient == 0
\* the nil interface a pool returns for a key it does not hold
Absent == -1
\* the zero value of `var clientID string`
NoKey == 0

VARIABLES
    Elastic,               \* ProxyImpl.Elastic
    ReuseElasticClients,   \* ProxyImpl.ReuseElasticClients
    availableCap,          \* availableConnections.Cap()
    poolSize,              \* the number of backends the pool started with
    availableConnections,  \* set of <<key, value>>: client ID -> client
    busyConnections,       \* set of <<key, value>>: inbound conn -> client
    pc,                    \* per inbound connection: position of its call
    clientID,              \* Connect's local clientID
    client,                \* the handler's local client
    io,                    \* PassThrough: the I/O steps done so far
    ret,                   \* the call that returned in the last step, if any
    closedClients,         \* backends on which Close() was called
    closedConns,           \* inbound connections on which Close() was called
    nextId,                \* the next backend NewClient constructs
    sdpc,                  \* position of Shutdown
    crashed,               \* a nil dereference panicked: the process is gone
    relayTrace,            \* whether the payloads of PassThrough are tracked
    received,              \* PassThrough's local received, response, err
    relay,                 \* the payloads moved by the last step, if any
    ids                    \* two identifier requests and what GetID returned

vars == <<Elastic, ReuseElasticClients, availableCap, poolSize,
          availableConnections,
          busyConnections, pc, clientID, client, io, ret, closedClients,
          closedConns, nextId, sdpc, crashed, relayTrace, received, relay,
          ids>>

config == <<Elastic, ReuseElasticClients, availableCap, poolSize, relayTrace>>

\* ------------------------------------------------------------------ pool
PoolSize(p) == Cardinality(p)

PoolKeys(p) == {e[1] : e \in p}

PoolValues(p) == {e[2] : e \in p}

PoolGet(p, k) ==
    IF \E e \in p : e[1] = k THEN (CHOOSE e \in p : e[1] = k)[2] ELSE Absent

PoolRemove(p, k) == {e \in p : e[1] # k}

PoolPutFails(p, cap) == cap > 0 /\ PoolSize(p) >= cap

PoolPut(p, k, v) == {e \in p : e[1] # k} \cup {<<k, v>>}

\* ---------------------------------------------------------------- helpers
\* mutant: the fullness test of Put used for exhaustion
IsExhausted_SizeAtCap ==
    IF Elastic THEN FALSE
    ELSE PoolSize(availableConnections) >= availableCap /\ availableCap > 0

\* mutant: an empty pool without a capacity counts as exhausted
IsExhausted_IgnoresCapacity ==
    IF Elastic THEN FALSE
    ELSE PoolSize(availableConnections) = 0

IsExhausted ==
    IF Elastic THEN FALSE
    ELSE PoolSize(availableConnections) = 0 /\ availableCap > 0

\* mutant: a backend that is not connected is reported as an error
IsHealty_RejectsDisconnected(cl, connected) ==
    [client |-> cl,
     err    |-> IF IsExhausted THEN "PoolExhausted"
                ELSE IF ~connected THEN "ClientNotConnected" ELSE "none"]

\* IsHealty(client): the client and the error it returns; connected is what
\* client.IsConnected() reports, which is only logged
IsHealty(cl, connected) ==
    [client |-> cl,
     err    |-> IF IsExhausted THEN "PoolExhausted" ELSE "none"]

\* client.IsConnected() on a nil client either panics or reports false
NilCheckPanics(cl) == cl = NilClient /\ ~IsExhausted

\* An error value: its static type ("error", the interface, or "gerr", a
\* *gerr.GatewayDError), whether it is non-nil, its message, and whether it
\* unwraps to io.EOF.
NoErr(t) == [type |-> t, set |-> FALSE, msg |-> "", eof |-> FALSE]

Err(t, m) == [type |-> t, set |-> TRUE, msg |-> m, eof |-> FALSE]

\* a nil []byte
NilBytes == <<-1>>

\* the bytes a hook returns as a replacement
Replacement == <<9>>

\* trafficData(gconn, client, fieldName, fieldValue, err): the field and the
\* "error" entry of the map. err is an interface{}: a *gerr.GatewayDError
\* stored in it is never the nil interface, and its case in the type switch
\* is empty.
trafficData(fieldName, fieldValue, err) ==
    [name  |-> fieldName,
     value |-> fieldValue,
     error |-> IF err.type = "gerr" \/ err.set
               THEN CASE err.type = "gerr"  -> ""
                      [] err.type = "error" -> err.msg
                      [] OTHER              -> err.msg
               ELSE ""]

\* extractField(result, fieldName): the []byte stored under fieldName, or nil
\* when the result is nil, has no such entry, or the entry is not a []byte.
\* (The "error" entry it also returns is only logged.)
extractField(result, fieldName) ==
    IF ~result.nil /\ result.name = fieldName /\ result.kind = "bytes"
    THEN result.value
    ELSE NilBytes

\* mutant: the bytes a hook returns are never used
Forwarded_KeepsOriginal(original, modified) == original

\* if modRequest != nil { request = modRequest }
Forwarded(original, modified) ==
    IF modified # NilBytes THEN modified ELSE original

\* if modResponse != nil { received = len(modResponse) }
ForwardedLen(n, modified) ==
    IF modified # NilBytes THEN Len(modified) ELSE n

\* mutant: the request is sent before the ingress hooks run
ExchangeTrace_SendBeforeHooks == <<"read", "send", "ingress", "receive">>

\* the order of the steps of PassThrough up to client.Receive
ExchangeTrace == <<"read", "ingress", "send", "receive">>

\* the order of the steps of PassThrough after the reconnection
EgressTrace == <<"egress", "write">>

\* mutant: a failed Receive is returned to the caller
PassThroughResult_ReceiveAborts(recvErr, hookErr, writeErr) ==
    IF recvErr.set THEN "ReceiveFailed"
    ELSE IF writeErr.set THEN "ServerSendFailed" ELSE "ok"

\* if origErr != nil { return gerr.ErrServerSendFailed.Wrap(err) }; return nil
PassThroughResult(recvErr, hookErr, writeErr) ==
    IF writeErr.set THEN "ServerSendFailed" ELSE "ok"

\* the error given to Wrap: err, last assigned by the egress hookConfig.Run
WrappedError(hookErr, writeErr) == hookErr

\* gconn.Next(-1): the buffered bytes, or an error
ReadOutcomes ==
    {[data |-> <<1, 2>>, err |-> NoErr("error")],
     [data |-> <<>>, err |-> Err("error", "read failed")]}

\* hookConfig.Run: nil, a map without the field, the field as a []byte, or
\* the field as a string; with or without an error
HookResults(fieldName) ==
    {[nil |-> TRUE, name |-> "none", kind |-> "none", value |-> NilBytes],
     [nil |-> FALSE, name |-> "none", kind |-> "none", value |-> NilBytes],
     [nil |-> FALSE, name |-> fieldName, kind |-> "bytes",
      value |-> Replacement],
     [nil |-> FALSE, name |-> fieldName, kind |-> "string",
      value |-> Replacement]}

HookErrors == {NoErr("gerr"), Err("gerr", "hook failed")}

\* client.Send
SendErrors == {NoErr("gerr"), Err("gerr", "send failed")}

\* client.Receive: bytes in a larger buffer, an error, bytes with io.EOF, or
\* zero bytes with io.EOF
ReceiveOutcomes ==
    {[received |-> 2, response |-> <<7, 8, 0>>, err |-> NoErr("gerr")],
     [received |-> 0, response |-> <<0, 0, 0>>,
      err |-> Err("gerr", "receive failed")],
     [received |-> 1, response |-> <<7, 0, 0>>,
      err |-> [Err("gerr", "EOF") EXCEPT !.eof = TRUE]],
     [received |-> 0, response |-> <<0, 0, 0>>,
      err |-> [Err("gerr", "EOF") EXCEPT !.eof = TRUE]]}

\* mutant: any failed Receive is taken for the end of the stream
EndOfStream_AnyError(rcv) == rcv.err.set

\* received == 0 && err != nil && errors.Is(err.Unwrap(), io.EOF)
EndOfStream(rcv) == rcv.received = 0 /\ rcv.err.set /\ rcv.err.eof

\* gconn.AsyncWrite: whether the write was submitted
WriteErrors == {NoErr("error"), Err("error", "write failed")}

NoReceive == [received |-> 0, response |-> <<>>, err |-> NoErr("gerr")]

NoResult == [nil |-> TRUE, name |-> "none", kind |-> "none",
             value |-> NilBytes]

NoRelay == [stage |-> "none", conn |-> 0, in |-> <<>>,
            inErr |-> NoErr("error"),
            payload |-> trafficData("none", <<>>, NoErr("error")),
            result |-> NoResult, hookErr |-> NoErr("gerr"), out |-> <<>>,
            outErr |-> NoErr("error"), wrapped |-> NoErr("error"),
            client |-> NilClient, connected |-> TRUE]

\* IsHealty returned backend cl for connection c, in Connect (stage "health")
\* or Disconnect (stage "recheck"); client.IsConnected(), which is called
\* only when the pool is not exhausted, reported connected
HealthChecked(stage, c, cl, connected) ==
    IF relayTrace
    THEN [NoRelay EXCEPT !.stage = stage, !.conn = c, !.client = cl,
                         !.connected = IsExhausted \/ connected]
    ELSE NoRelay

\* the inputs that only the tracked payloads depend on are enumerated when
\* the payloads are tracked
Tracked(S) == IF relayTrace THEN S ELSE {CHOOSE x \in S : TRUE}

AllIdle == sdpc = "idle" /\ \A c \in Conns : pc[c] = "idle"

NoRet == [conn |-> 0, op |-> "none", val |-> "none", io |-> <<>>,
          health |-> "none"]

NoReturn == ret' = NoRet

\* handler o returns r for connection c, having done the I/O steps s and
\* seen health error h
Return(c, o, r, s, h) ==
    /\ pc' = [pc EXCEPT ![c] = "idle"]
    /\ ret' = [conn |-> c, op |-> o, val |-> r, io |-> s, health |-> h]
    /\ client' = [client EXCEPT ![c] = NilClient]
    /\ clientID' = [clientID EXCEPT ![c] = NoKey]
    /\ io' = [io EXCEPT ![c] = <<>>]
    /\ received' = [received EXCEPT ![c] = NoReceive]

\* a nil pointer dereference: the goroutine panics and the process ends
Panic(c, o) ==
    /\ pc' = [pc EXCEPT ![c] = "panic"]
    /\ ret' = [conn |-> c, op |-> o, val |-> "panic", io |-> io[c],
               health |-> "none"]
    /\ crashed' = TRUE
    /\ UNCHANGED <<client, clientID, io, received>>

Goto(c, l) == pc' = [pc EXCEPT ![c] = l] /\ NoReturn

\* ----------------------------------------------------------------- GetID
\* A string is a sequence of characters. The networks Resolve accepts and
\* some addresses, with and without trailing digits.
Networks == {<<"t", "c", "p">>, <<"u", "d", "p">>}

Addresses == {<<"h">>, <<"h", "1">>, <<"h", "1", "2">>}

Seeds == 0..MaxSeed

Digit(d) == <<"0", "1", "2", "3", "4", "5", "6", "7", "8", "9">>[d + 1]

\* fmt's %d of a natural number
RECURSIVE Decimal(_)
Decimal(n) ==
    IF n < 10 THEN <<Digit(n)>> ELSE Decimal(n \div 10) \o <<Digit(n % 10)>>

\* fmt.Sprintf("%s://%s%d", network, address, seed)
Sprintf(network, address, seed) ==
    network \o <<":", "/", "/">> \o address \o Decimal(seed)

\* hex.EncodeToString(sha256(...)), the hash taken as injective
Sha256Hex(str) == <<"sha256", str>>

GetID(network, address, seed) == Sha256Hex(Sprintf(network, address, seed))

Triples == [network : Networks, address : Addresses, seed : Seeds]

NoID == <<"none", <<>>>>

NoIDs == [a |-> CHOOSE t \in Triples : TRUE, b |-> CHOOSE t \in Triples : TRUE,
          ida |-> NoID, idb |-> NoID]

\* mutant: the size of the populated pool is not verified
Populated_Unverified == TRUE

\* The pool is populated with Put and the process exits unless it holds
\* poolSize clients: a pool with a capacity starts within it.
Populated == availableCap = 0 \/ poolSize <= availableCap

\* NewProxy is given the populated pool
Startup ==
    /\ Elastic \in BOOLEAN
    /\ ReuseElasticClients \in BOOLEAN
    /\ availableCap \in 0..MaxCap
    /\ poolSize \in 0..MaxInit
    /\ Populated
    /\ availableConnections = {<<i, i>> : i \in 1..poolSize}
    /\ nextId = poolSize + 1
    /\ busyConnections = {}
    /\ pc = [c \in Conns |-> "idle"]
    /\ clientID = [c \in Conns |-> NoKey]
    /\ client = [c \in Conns |-> NilClient]
    /\ io = [c \in Conns |-> <<>>]
    /\ ret = NoRet
    /\ closedClients = {}
    /\ closedConns = {}
    /\ sdpc = "idle"
    /\ crashed = FALSE
    /\ received = [c \in Conns |-> NoReceive]
    /\ relay = NoRelay

Init == Startup /\ relayTrace = FALSE /\ ids = NoIDs

\* the same start, with the payloads of PassThrough tracked
InitRelay == Startup /\ relayTrace = TRUE /\ ids = NoIDs

\* --------------------------------------------------------------- Connect
\* availableConnections.ForEach: the first key in an unspecified order.
\* The reactor opens a connection once: Connect runs for a connection that
\* has no call in flight and no binding.
ConnectForEach(c) ==
    /\ ~crashed /\ pc[c] = "idle"
    /\ relay' = NoRelay
    /\ PoolGet(busyConnections, c) = Absent
    /\ \E k \in (IF availableConnections = {} THEN {NoKey}
                 ELSE PoolKeys(availableConnections)) :
          clientID' = [clientID EXCEPT ![c] = k]
    /\ Goto(c, "c_exhausted")
    /\ closedConns' = closedConns \ {c}
    /\ UNCHANGED <<config, ids, availableConnections, busyConnections, client,
                   io, received, closedClients, nextId, sdpc, crashed>>

\* if pr.IsExhausted() { if pr.Elastic { NewClient } else { return } }
ConnectIsExhausted(c) ==
    /\ ~crashed /\ pc[c] = "c_exhausted"
    /\ relay' = NoRelay
    /\ IF IsExhausted
       THEN IF Elastic
            THEN /\ client' = [client EXCEPT ![c] = nextId]
                 /\ nextId' = nextId + 1
                 /\ Goto(c, "c_put")
                 /\ UNCHANGED <<clientID, io, received>>
            ELSE /\ Return(c, "Connect", "PoolExhausted", <<>>, "none")
                 /\ UNCHANGED nextId
       ELSE /\ Goto(c, "c_pop")
            /\ UNCHANGED <<client, clientID, io, received, nextId>>
    /\ UNCHANGED <<config, ids, availableConnections, busyConnections,
                   closedClients, closedConns, sdpc, crashed>>

\* mutant: Get instead of Pop, the backend stays in the available pool
ConnectPop_KeepsEntry(c) ==
    /\ ~crashed /\ pc[c] = "c_pop"
    /\ relay' = NoRelay
    /\ LET v == PoolGet(availableConnections, clientID[c])
       IN  client' = [client EXCEPT ![c] = IF v = Absent THEN NilClient ELSE v]
    /\ Goto(c, "c_put")
    /\ UNCHANGED <<config, ids, availableConnections, busyConnections, clientID,
                   io, received, closedClients, closedConns, nextId, sdpc, crashed>>

\* pr.availableConnections.Pop(clientID).(*Client)
ConnectPop(c) ==
    /\ ~crashed /\ pc[c] = "c_pop"
    /\ relay' = NoRelay
    /\ LET v == PoolGet(availableConnections, clientID[c])
       IN  client' = [client EXCEPT ![c] = IF v = Absent THEN NilClient ELSE v]
    /\ availableConnections' = PoolRemove(availableConnections, clientID[c])
    /\ Goto(c, "c_put")
    /\ UNCHANGED <<config, ids, busyConnections, clientID, io, received, closedClients,
                   closedConns, nextId, sdpc, crashed>>

\* mutant: the error of the liveness check is returned to the caller
ConnectPut_AbortsUnhealthy(c) ==
    /\ ~crashed /\ pc[c] = "c_put"
    /\ \/ /\ NilCheckPanics(client[c])
          /\ Panic(c, "Connect")
          /\ relay' = NoRelay
          /\ UNCHANGED busyConnections
       \/ \E connected \in Tracked(BOOLEAN) :
          LET h == IsHealty(client[c], connected)
          IN  IF h.err # "none"
                \/ PoolPutFails(busyConnections, EmptyPoolCapacity)
              THEN /\ Return(c, "Connect", "PoolExhausted", <<>>, h.err)
                   /\ relay' = HealthChecked("health", c, h.client, connected)
                   /\ UNCHANGED <<busyConnections, crashed>>
              ELSE /\ busyConnections' =
                         PoolPut(busyConnections, c, h.client)
                   /\ IF h.client = NilClient
                      THEN Panic(c, "Connect") /\ relay' = NoRelay
                      ELSE /\ Return(c, "Connect", "ok", <<>>, h.err)
                           /\ relay' = HealthChecked("health", c, h.client, connected)
                           /\ UNCHANGED crashed
    /\ UNCHANGED <<config, ids, availableConnections, closedClients, closedConns,
                   nextId, sdpc>>

\* IsHealty(client), busyConnections.Put, then the debug events, where
\* client.ID[:7] panics on a nil client.
ConnectPut(c) ==
    /\ ~crashed /\ pc[c] = "c_put"
    /\ \/ /\ NilCheckPanics(client[c])
          /\ Panic(c, "Connect")
          /\ relay' = NoRelay
          /\ UNCHANGED busyConnections
       \/ \E connected \in Tracked(BOOLEAN) :
          LET h == IsHealty(client[c], connected)
          IN  IF PoolPutFails(busyConnections, EmptyPoolCapacity)
              THEN /\ Return(c, "Connect", "PoolExhausted", <<>>, h.err)
                   /\ relay' = NoRelay
                   /\ UNCHANGED <<busyConnections, crashed>>
              ELSE /\ busyConnections' =
                         PoolPut(busyConnections, c, h.client)
                   /\ IF h.client = NilClient
                      THEN Panic(c, "Connect") /\ relay' = NoRelay
                      ELSE /\ Return(c, "Connect", "ok", <<>>, h.err)
                           /\ relay' = HealthChecked("health", c, h.client, connected)
                           /\ UNCHANGED crashed
    /\ UNCHANGED <<config, ids, availableConnections, closedClients, closedConns,
                   nextId, sdpc>>

Connect(c) ==
    \/ ConnectForEach(c)
    \/ ConnectIsExhausted(c)
    \/ ConnectPop(c)
    \/ ConnectPut(c)

\* ------------------------------------------------------------ Disconnect
\* mutant: the elastic test made before the nil test
DisconnectPop_ElasticFirst(c) ==
    /\ ~crashed /\ pc[c] = "idle"
    /\ relay' = NoRelay
    /\ busyConnections' = PoolRemove(busyConnections, c)
    /\ LET v == PoolGet(busyConnections, c)
       IN  IF (Elastic /\ ReuseElasticClients) \/ ~Elastic
           THEN IF v # Absent
                THEN /\ client' = [client EXCEPT ![c] = v]
                     /\ Goto(c, "d_put")
                     /\ UNCHANGED <<clientID, io, received>>
                ELSE Return(c, "Disconnect", "ClientNotFound", <<>>, "none")
           ELSE Return(c, "Disconnect", "ClientNotConnected", <<>>, "none")
    /\ UNCHANGED <<config, ids, availableConnections, closedClients, closedConns,
                   nextId, sdpc, crashed>>

\* mutant: every backend is recycled, whatever the mode
DisconnectPop_AlwaysRecycles(c) ==
    /\ ~crashed /\ pc[c] = "idle"
    /\ relay' = NoRelay
    /\ busyConnections' = PoolRemove(busyConnections, c)
    /\ LET v == PoolGet(busyConnections, c)
       IN  IF v # Absent
           THEN /\ client' = [client EXCEPT ![c] = v]
                /\ Goto(c, "d_put")
                /\ UNCHANGED <<clientID, io, received>>
           ELSE Return(c, "Disconnect", "ClientNotFound", <<>>, "none")
    /\ UNCHANGED <<config, ids, availableConnections, closedClients, closedConns,
                   nextId, sdpc, crashed>>

\* client := pr.busyConnections.Pop(gconn) and the branches on it
DisconnectPop(c) ==
    /\ ~crashed /\ pc[c] = "idle"
    /\ relay' = NoRelay
    /\ busyConnections' = PoolRemove(busyConnections, c)
    /\ LET v == PoolGet(busyConnections, c)
       IN  IF v # Absent
           THEN IF (Elastic /\ ReuseElasticClients) \/ ~Elastic
                THEN /\ client' = [client EXCEPT ![c] = v]
                     /\ Goto(c, "d_put")
                     /\ UNCHANGED <<clientID, io, received>>
                ELSE Return(c, "Disconnect", "ClientNotConnected", <<>>, "none")
           ELSE Return(c, "Disconnect", "ClientNotFound", <<>>, "none")
    /\ UNCHANGED <<config, ids, availableConnections, closedClients, closedConns,
                   nextId, sdpc, crashed>>

\* mutant: a failed liveness check keeps the backend out of the pool
DisconnectPut_SkipsUnhealthy(c) ==
    /\ ~crashed /\ pc[c] = "d_put"
    /\ \/ /\ NilCheckPanics(client[c]) \/ client[c] = NilClient
          /\ Panic(c, "Disconnect")
          /\ relay' = NoRelay
          /\ UNCHANGED availableConnections
       \/ /\ client[c] # NilClient
          /\ \E connected \in Tracked(BOOLEAN) :
             LET h == IsHealty(client[c], connected)
             IN  /\ availableConnections' =
                       IF PoolPutFails(availableConnections, availableCap)
                      \/ h.err # "none"
                       THEN availableConnections
                       ELSE PoolPut(availableConnections, client[c], client[c])
                 /\ Return(c, "Disconnect", "ok", <<>>, h.err)
                 /\ relay' = HealthChecked("recheck", c, h.client, connected)
          /\ UNCHANGED crashed
    /\ UNCHANGED <<config, ids, busyConnections, closedClients, closedConns,
                   nextId, sdpc>>

\* IsHealty(client), then availableConnections.Put(client.ID, client); a
\* failed Put is only logged.
DisconnectPut(c) ==
    /\ ~crashed /\ pc[c] = "d_put"
    /\ \/ /\ NilCheckPanics(client[c]) \/ client[c] = NilClient
          /\ Panic(c, "Disconnect")
          /\ relay' = NoRelay
          /\ UNCHANGED availableConnections
       \/ /\ client[c] # NilClient
          /\ \E connected \in Tracked(BOOLEAN) :
             LET h == IsHealty(client[c], connected)
             IN  /\ availableConnections' =
                       IF PoolPutFails(availableConnections, availableCap)
                       THEN availableConnections
                       ELSE PoolPut(availableConnections, client[c], client[c])
                 /\ Return(c, "Disconnect", "ok", <<>>, h.err)
                 /\ relay' = HealthChecked("recheck", c, h.client, connected)
          /\ UNCHANGED crashed
    /\ UNCHANGED <<config, ids, busyConnections, closedClients, closedConns,
                   nextId, sdpc>>

Disconnect(c) ==
    \/ DisconnectPop(c)
    \/ DisconnectPut(c)

\* ----------------------------------------------------------- PassThrough
\* mutant: the binding is looked up only after the inbound read
PassThroughGet_ReadsFirst(c) ==
    /\ ~crashed /\ pc[c] = "idle"
    /\ relay' = NoRelay
    /\ IF PoolGet(busyConnections, c) = Absent
       THEN Return(c, "PassThrough", "ClientNotFound", <<"read">>, "none")
       ELSE /\ Goto(c, "pt_cast")
            /\ UNCHANGED <<client, clientID, io, received>>
    /\ UNCHANGED <<config, ids, availableConnections, busyConnections,
                   closedClients, closedConns, nextId, sdpc, crashed>>

\* pr.busyConnections.Get(gconn) == nil
PassThroughGet(c) ==
    /\ ~crashed /\ pc[c] = "idle"
    /\ relay' = NoRelay
    /\ IF PoolGet(busyConnections, c) = Absent
       THEN Return(c, "PassThrough", "ClientNotFound", io[c], "none")
       ELSE /\ Goto(c, "pt_cast")
            /\ UNCHANGED <<client, clientID, io, received>>
    /\ UNCHANGED <<config, ids, availableConnections, busyConnections,
                   closedClients, closedConns, nextId, sdpc, crashed>>

\* pr.busyConnections.Get(gconn).(*Client): a second read of the pool
PassThroughCast(c) ==
    /\ ~crashed /\ pc[c] = "pt_cast"
    /\ relay' = NoRelay
    /\ LET v == PoolGet(busyConnections, c)
       IN  IF v = Absent
           THEN Return(c, "PassThrough", "CastFailed", io[c], "none")
           ELSE /\ client' = [client EXCEPT ![c] = v]
                /\ Goto(c, "pt_exchange")
                /\ UNCHANGED <<clientID, io, received>>
    /\ UNCHANGED <<config, ids, availableConnections, busyConnections,
                   closedClients, closedConns, nextId, sdpc, crashed>>

\* gconn.Next, the OnIngressTraffic hooks, client.Send and client.Receive;
\* their errors are logged. Receive yields data, an error, or zero bytes
\* with io.EOF. trafficData dereferences client.Conn: a nil client panics.
PassThroughExchange(c) ==
    /\ ~crashed /\ pc[c] = "pt_exchange"
    /\ IF client[c] = NilClient
       THEN Panic(c, "PassThrough") /\ relay' = NoRelay
       ELSE \E rd \in Tracked(ReadOutcomes),
               result \in Tracked(HookResults("request")),
               hookErr \in Tracked(HookErrors),
               sendErr \in Tracked(SendErrors),
               rcv \in ReceiveOutcomes :
            LET payload == trafficData("request", rd.data, rd.err)
                request ==
                    Forwarded(rd.data, extractField(result, "request"))
            IN  /\ io' = [io EXCEPT ![c] = @ \o ExchangeTrace]
                /\ received' = [received EXCEPT ![c] =
                                   IF relayTrace THEN rcv ELSE NoReceive]
                /\ relay' = IF relayTrace
                            THEN [NoRelay EXCEPT !.stage = "ingress",
                                    !.conn = c, !.in = rd.data,
                                    !.inErr = rd.err, !.payload = payload,
                                    !.result = result, !.hookErr = hookErr,
                                    !.out = request, !.outErr = sendErr]
                            ELSE NoRelay
                /\ IF EndOfStream(rcv)
                   THEN /\ nextId <= poolSize + MaxNew
                        /\ Goto(c, "pt_reconnect")
                   ELSE Goto(c, "pt_egress")
                /\ UNCHANGED <<client, clientID, crashed>>
    /\ UNCHANGED <<config, ids, availableConnections, busyConnections,
                   closedClients, closedConns, nextId, sdpc>>

\* mutant: the closed backend is bound again instead of a new one
PassThroughReconnect_KeepsClient(c) ==
    /\ ~crashed /\ pc[c] = "pt_reconnect"
    /\ relay' = NoRelay
    /\ closedClients' = closedClients \cup {client[c]}
    /\ busyConnections' = PoolRemove(busyConnections, c)
    /\ Goto(c, "pt_put")
    /\ UNCHANGED <<config, ids, availableConnections, client, clientID, io, received,
                   closedConns, nextId, sdpc, crashed>>

\* client.Close(); client = NewClient(...); busyConnections.Remove(gconn)
PassThroughReconnect(c) ==
    /\ ~crashed /\ pc[c] = "pt_reconnect"
    /\ relay' = NoRelay
    /\ closedClients' = closedClients \cup {client[c]}
    /\ client' = [client EXCEPT ![c] = nextId]
    /\ nextId' = nextId + 1
    /\ busyConnections' = PoolRemove(busyConnections, c)
    /\ Goto(c, "pt_put")
    /\ UNCHANGED <<config, ids, availableConnections, clientID, io, received, closedConns,
                   sdpc, crashed>>

\* busyConnections.Put(gconn, client)
PassThroughPut(c) ==
    /\ ~crashed /\ pc[c] = "pt_put"
    /\ relay' = NoRelay
    /\ IF PoolPutFails(busyConnections, EmptyPoolCapacity)
       THEN /\ Return(c, "PassThrough", "PoolExhausted", io[c], "none")
            /\ UNCHANGED busyConnections
       ELSE /\ busyConnections' = PoolPut(busyConnections, c, client[c])
            /\ Goto(c, "pt_egress")
            /\ UNCHANGED <<client, clientID, io, received>>
    /\ UNCHANGED <<config, ids, availableConnections, closedClients, closedConns,
                   nextId, sdpc, crashed>>

\* the OnEgressTraffic hooks, then gconn.AsyncWrite: only a failed
\* submission of the write is returned.
PassThroughEgress(c) ==
    /\ ~crashed /\ pc[c] = "pt_egress"
    /\ \E result \in Tracked(HookResults("response")),
          hookErr \in Tracked(HookErrors),
          writeErr \in WriteErrors :
       LET rcv      == received[c]
           original == SubSeq(rcv.response, 1, rcv.received)
           payload  == trafficData("response", original, rcv.err)
           modified == extractField(result, "response")
           response == Forwarded(rcv.response, modified)
           n        == ForwardedLen(rcv.received, modified)
       IN  /\ Return(c, "PassThrough",
                     PassThroughResult(rcv.err, hookErr, writeErr),
                     io[c] \o EgressTrace, "none")
           /\ relay' = IF relayTrace
                       THEN [NoRelay EXCEPT !.stage = "egress",
                               !.conn = c, !.in = original,
                               !.inErr = rcv.err, !.payload = payload,
                               !.result = result, !.hookErr = hookErr,
                               !.out = SubSeq(response, 1, n),
                               !.outErr = writeErr,
                               !.wrapped =
                                  IF writeErr.set
                                  THEN WrappedError(hookErr, writeErr)
                                  ELSE NoErr("error")]
                       ELSE NoRelay
    /\ UNCHANGED <<config, ids, availableConnections, busyConnections,
                   closedClients, closedConns, nextId, sdpc, crashed>>

PassThrough(c) ==
    \/ PassThroughGet(c)
    \/ PassThroughCast(c)
    \/ PassThroughExchange(c)
    \/ PassThroughReconnect(c)
    \/ PassThroughPut(c)
    \/ PassThroughEgress(c)

\* -------------------------------------------------------------- Shutdown
ShutdownAvailable ==
    /\ ~crashed /\ sdpc = "idle"
    /\ relay' = NoRelay
    /\ closedClients' =
          closedClients \cup (PoolValues(availableConnections) \ {NilClient})
    /\ availableConnections' = {}
    /\ sdpc' = "sd_busy"
    /\ NoReturn
    /\ UNCHANGED <<config, ids, busyConnections, pc,
                   clientID, client, io, received, closedConns, nextId, crashed>>

\* mutant: the bindings are closed but stay in the busy pool
ShutdownBusy_KeepsBindings ==
    /\ ~crashed /\ sdpc = "sd_busy"
    /\ relay' = NoRelay
    /\ closedConns' = closedConns \cup PoolKeys(busyConnections)
    /\ closedClients' =
          closedClients \cup (PoolValues(busyConnections) \ {NilClient})
    /\ UNCHANGED busyConnections
    /\ sdpc' = "idle"
    /\ ret' = [NoRet EXCEPT !.op = "Shutdown", !.val = "ok"]
    /\ UNCHANGED <<config, ids, availableConnections, pc,
                   clientID, client, io, received, nextId, crashed>>

ShutdownBusy ==
    /\ ~crashed /\ sdpc = "sd_busy"
    /\ relay' = NoRelay
    /\ closedConns' = closedConns \cup PoolKeys(busyConnections)
    /\ closedClients' =
          closedClients \cup (PoolValues(busyConnections) \ {NilClient})
    /\ busyConnections' = {}
    /\ sdpc' = "idle"
    /\ ret' = [NoRet EXCEPT !.op = "Shutdown", !.val = "ok"]
    /\ UNCHANGED <<config, ids, availableConnections, pc,
                   clientID, client, io, received, nextId, crashed>>

Shutdown ==
    \/ ShutdownAvailable
    \/ ShutdownBusy

\* ------------------------------------------------------------------ spec
Next ==
    \/ \E c \in Conns : Connect(c)
    \/ \E c \in Conns : Disconnect(c)
    \/ \E c \in Conns : PassThrough(c)
    \/ Shutdown

Spec == Init /\ [][Next]_vars

\* Calls that do not overlap: a handler is entered only when nothing else is
\* in flight.
Sequential ==
    /\ \A c \in Conns : (pc[c] = "idle" /\ pc'[c] # "idle") => AllIdle
    /\ \A c \in Conns :
          (pc[c] = "idle" /\ ret'.op # "none" /\ ret'.conn = c) => AllIdle
    /\ (sdpc = "idle" /\ sdpc' # "idle") => AllIdle

NextSeq == Next /\ Sequential

SpecSeq == Init /\ [][NextSeq]_vars

\* Non-overlapping Connect and Disconnect calls only.
NextConnectDisconnect ==
    /\ \/ \E c \in Conns : Connect(c)
       \/ \E c \in Conns : Disconnect(c)
    /\ Sequential

SpecConnectDisconnect == Init /\ [][NextConnectDisconnect]_vars

\* Concurrent Connect calls only.
NextConnect == \E c \in Conns : Connect(c)

SpecConnect == Init /\ [][NextConnect]_vars

\* two requests for an identifier, not yet served
InitGetID ==
    /\ Startup /\ relayTrace = FALSE
    /\ ~Elastic /\ ~ReuseElasticClients /\ availableCap = 0 /\ poolSize = 0
    /\ ids \in [a : Triples, b : Triples, ida : {NoID}, idb : {NoID}]

GetIDs ==
    /\ ids.ida = NoID
    /\ ids' = [ids EXCEPT
                 !.ida = GetID(ids.a.network, ids.a.address, ids.a.seed),
                 !.idb = GetID(ids.b.network, ids.b.address, ids.b.seed)]
    /\ UNCHANGED <<config, availableConnections,
                   busyConnections, pc, clientID, client, io, ret,
                   closedClients, closedConns, nextId, sdpc, crashed,
                   received, relay>>

SpecGetID == InitGetID /\ [][GetIDs]_vars

\* Shutdown has returned after closing at least one bound inbound
\* connection, which has not been opened again
Drained == sdpc = "idle" /\ closedConns # {}

\* once Shutdown has returned no call is started: the calls in flight finish
NoCallStarts ==
    /\ \A c \in Conns : pc[c] = "idle" => pc'[c] = "idle"
    /\ sdpc' = "idle"

InConnect(l) == l \in {"c_exhausted", "c_pop", "c_put"}

\* Connect and Shutdown do not overlap
ConnectApart ==
    /\ (sdpc = "idle" /\ sdpc' # "idle") =>
          \A c \in Conns : ~InConnect(pc[c])
    /\ \A c \in Conns :
          (pc[c] = "idle" /\ InConnect(pc'[c])) => sdpc = "idle"

NextDrain == Next /\ ConnectApart /\ (Drained => NoCallStarts)

\* Concurrent calls up to a Shutdown that closes a bound connection while
\* only PassThrough and Disconnect calls are in flight; after it only the
\* calls that were in flight go on.
SpecDrain == Init /\ [][NextDrain]_vars

\* Calls that do not overlap, with the payloads of PassThrough tracked.
SpecRelay == InitRelay /\ [][NextSeq]_vars

\* ---------------------------------------------------------------- claims
Bound(c) == PoolGet(busyConnections, c) # Absent

FullTrace == <<"read", "ingress", "send", "receive", "egress", "write">>

\* C1: a backend client is never double-assigned: no backend is bound to two
\* inbound connections in the busy pool, and no backend is in the available
\* pool and the busy pool at the same time.
C1_NoDoubleAssignment ==
    /\ \A e1, e2 \in busyConnections :
          (e1[2] = e2[2] /\ e1[2] # NilClient) => e1[1] = e2[1]
    /\ \A b \in busyConnections : \A a \in availableConnections :
          b[2] # a[2] /\ b[2] # a[1]

\* two inbound connections are bound, to different backends
C1_Witness ==
    /\ PoolSize(busyConnections) = 2
    /\ NilClient \notin PoolValues(busyConnections)
    /\ ret.op = "Connect" /\ ret.val = "ok"
    /\ poolSize = 2

\* C2: non-elastic pool of capacity N holding N backends: N concurrent
\* Connect calls for N distinct inbound connections all succeed, each bound
\* to a distinct backend; once all N are bound a further Connect fails with
\* PoolExhausted.
C2_ConcurrentConnectsSucceed ==
    (~Elastic /\ availableCap = poolSize /\ poolSize > 0) =>
        /\ poolSize = Cardinality(Conns) =>
              /\ ~crashed
              /\ ret.op = "Connect" => ret.val = "ok"
              /\ NilClient \notin PoolValues(busyConnections)
              /\ Cardinality(PoolValues(busyConnections))
                    = PoolSize(busyConnections)
        /\ ( /\ PoolSize(busyConnections) = poolSize
             /\ NilClient \notin PoolValues(busyConnections)
             /\ ret.op = "Connect" /\ ret.val # "ok" )
              => ret.val = "PoolExhausted"

\* C3: elastic engine, available pool empty: Connect constructs a brand-new
\* backend from the template and binds the inbound connection to it.
C3_ElasticConnectCreates ==
    [][\A c \in Conns :
          ( /\ ConnectIsExhausted(c)
            /\ Elastic
            /\ PoolSize(availableConnections) = 0 )
          => /\ client'[c] = nextId
             /\ nextId' = nextId + 1
             /\ pc'[c] = "c_put"]_vars

\* C4: non-elastic engine, available pool of positive capacity and size 0:
\* Connect returns PoolExhausted, binds nothing and leaves both pools
\* unchanged.
C4_ExhaustedConnectFails ==
    [][\A c \in Conns :
          ( /\ ConnectIsExhausted(c)
            /\ ~Elastic
            /\ availableCap > 0
            /\ PoolSize(availableConnections) = 0 )
          => /\ ret'.conn = c /\ ret'.op = "Connect"
             /\ ret'.val = "PoolExhausted"
             /\ pc'[c] = "idle"
             /\ PoolGet(busyConnections', c) = Absent
             /\ availableConnections' = availableConnections
             /\ busyConnections' = busyConnections]_vars

C4_Witness ==
    /\ ret.op = "Connect" /\ ret.val = "PoolExhausted"
    /\ ~Elastic /\ availableCap > 0
    /\ availableConnections = {}
    /\ PoolGet(busyConnections, ret.conn) = Absent

\* C5: after each of a sequence of non-overlapping Connect and Disconnect
\* calls, available size + busy size = backends created - backends closed.
C5_SizesMatchLiveBackends ==
    AllIdle =>
        PoolSize(availableConnections) + PoolSize(busyConnections)
            = (nextId - 1) - Cardinality(closedClients)

C7_DisconnectRecycles ==
    [][\A c \in Conns :
          /\ ( /\ DisconnectPop(c) /\ Bound(c)
               /\ (~Elastic \/ ReuseElasticClients) )
             => /\ pc'[c] = "d_put"
                /\ client'[c] = PoolGet(busyConnections, c)
                /\ busyConnections' = busyConnections \ {<<c, client'[c]>>}
                /\ availableConnections' = availableConnections
          /\ DisconnectPut(c) =>
                /\ ret'.conn = c /\ ret'.op = "Disconnect"
                /\ ret'.val = "ok"
                /\ <<client[c], client[c]>> \in availableConnections'
                /\ availableConnections' =
                      availableConnections \cup {<<client[c], client[c]>>}
                /\ ~Bound(c)'
                /\ busyConnections' = busyConnections
          /\ (ConnectPop(c) /\ client'[c] # NilClient) =>
                availableConnections' =
                    availableConnections \ {<<client'[c], client'[c]>>}]_vars

\* a Disconnect whose liveness check failed returned success with the
\* backend back in the pool, which is as it was before the Connect
C7_Witness ==
    /\ ret.op = "Disconnect" /\ ret.val = "ok"
    /\ ret.health = "PoolExhausted"
    /\ availableConnections = {<<i, i>> : i \in 1..poolSize}
    /\ poolSize > 0
    /\ busyConnections = {}

\* C8: Disconnect of an inbound connection without a binding returns
\* ClientNotFound and leaves both pools unchanged.
C8_DisconnectUnbound ==
    [][\A c \in Conns :
          (DisconnectPop(c) /\ ~Bound(c))
          => /\ ret'.conn = c /\ ret'.op = "Disconnect"
             /\ ret'.val = "ClientNotFound"
             /\ pc'[c] = "idle"
             /\ availableConnections' = availableConnections
             /\ busyConnections' = busyConnections]_vars

\* a second Disconnect of a connection that was bound and disconnected
C8_Witness ==
    /\ ret.op = "Disconnect" /\ ret.val = "ClientNotFound"
    /\ availableConnections # {<<i, i>> : i \in 1..poolSize}

\* C9: elastic without reuse: Disconnect of a bound inbound connection
\* removes the binding, puts the backend into no pool and returns
\* ClientNotConnected.
C9_ElasticDiscards ==
    [][\A c \in Conns :
          ( /\ DisconnectPop(c) /\ Bound(c)
            /\ Elastic /\ ~ReuseElasticClients )
          => /\ ret'.conn = c /\ ret'.op = "Disconnect"
             /\ ret'.val = "ClientNotConnected"
             /\ pc'[c] = "idle"
             /\ ~Bound(c)'
             /\ busyConnections' = PoolRemove(busyConnections, c)
             /\ availableConnections' = availableConnections
             /\ PoolGet(busyConnections, c)
                   \notin PoolValues(availableConnections')
                          \cup PoolValues(busyConnections')]_vars

C9_Witness ==
    /\ ret.op = "Disconnect" /\ ret.val = "ClientNotConnected"
    /\ Elastic /\ ~ReuseElasticClients
    /\ ~Bound(ret.conn)

\* C10: PassThrough on an inbound connection without a binding returns
\* ClientNotFound with no read, hook, send or receive and no change to
\* either pool; and an inbound connection never has two bindings.
C10_PassThroughUnbound ==
    [][\A c \in Conns :
          /\ (PassThroughGet(c) /\ ~Bound(c))
             => /\ ret'.conn = c /\ ret'.op = "PassThrough"
                /\ ret'.val = "ClientNotFound"
                /\ ret'.io = <<>>
                /\ io'[c] = <<>>
                /\ pc'[c] = "idle"
                /\ availableConnections' = availableConnections
                /\ busyConnections' = busyConnections
                /\ closedClients' = closedClients
                /\ nextId' = nextId
          /\ Cardinality({e \in busyConnections' : e[1] = c}) <= 1]_vars

C10_Witness ==
    /\ ret.op = "PassThrough" /\ ret.val = "ClientNotFound"
    /\ ret.io = <<>>
    /\ availableConnections # {}

\* the last step ran a hook stage of PassThrough and forwarded its payload
Relayed == relay.stage \in {"ingress", "egress"}

\* the field a hook stage replaces
StageField == IF relay.stage = "ingress" THEN "request" ELSE "response"

\* the hook stage returned a replacement byte payload in its field
Replaced ==
    /\ ~relay.result.nil
    /\ relay.result.name = StageField
    /\ relay.result.kind = "bytes"

\* C11: the payload passed on by a hook stage (given to Send after the
\* ingress stage, written to the inbound connection after the egress stage)
\* is the replacement the stage returned, with the replacement's own
\* length, and the original bytes when the stage returned no replacement.
C11_ReplacementForwarded ==
    Relayed =>
        /\ Replaced =>
              /\ relay.out = relay.result.value
              /\ Len(relay.out) = Len(relay.result.value)
        /\ ~Replaced => relay.out = relay.in

\* an egress stage replaced a two-byte response by a shorter payload and no
\* stage reported an error
C11_Witness ==
    /\ relay.stage = "egress" /\ Replaced /\ ~relay.hookErr.set
    /\ relay.in = <<7, 8>>
    /\ relay.out = Replacement
    /\ ret.op = "PassThrough" /\ ret.val = "ok"

\* C12: once PassThrough holds its backend, no error of the inbound read, of
\* a hook stage, of Send or of Receive ends the call: after the exchange the
\* call goes on to the reconnection or the egress stage, a call that did any
\* I/O did all six steps, and it returns nil or ServerSendFailed, the latter
\* exactly when the submission of the write failed.
C12_ErrorsNeverAbort ==
    /\ relay.stage = "ingress" =>
          /\ pc[relay.conn] \in {"pt_egress", "pt_reconnect"}
          /\ io[relay.conn] = <<"read", "ingress", "send", "receive">>
    /\ (ret.op = "PassThrough" /\ ret.io # <<>>) =>
          /\ ret.io = FullTrace
          /\ relay.stage = "egress"
          /\ ret.val \in {"ok", "ServerSendFailed"}
          /\ ret.val = "ServerSendFailed" <=> relay.outErr.set

\* Receive failed and the egress stage reported an error, and the call still
\* wrote the response and returned nil
C12_Witness ==
    /\ ret.op = "PassThrough" /\ ret.val = "ok" /\ ret.io = FullTrace
    /\ relay.stage = "egress"
    /\ relay.inErr.set /\ ~relay.inErr.eof /\ relay.hookErr.set

\* C13: when the submission of the write fails, the error wrapped in the
\* ServerSendFailed that PassThrough returns is the error the submission
\* returned.
C13_WrapsWriteError ==
    (relay.stage = "egress" /\ relay.outErr.set) =>
        /\ ret.val = "ServerSendFailed"
        /\ relay.wrapped = relay.outErr

\* C14: with no other call running, the first step of Shutdown closes every
\* backend of the available pool and empties it, the second closes every
\* bound inbound connection and its backend and empties the busy pool, so
\* that both pools are empty when Shutdown returns; nothing panics when a
\* pool is empty, and a Shutdown that finds both pools empty closes nothing.
C14_ShutdownEmptiesPools ==
    [][/\ (sdpc = "idle" /\ sdpc' = "sd_busy") =>
             /\ availableConnections' = {}
             /\ PoolValues(availableConnections) \subseteq closedClients'
             /\ closedClients \subseteq closedClients'
             /\ ~crashed'
       /\ (sdpc = "sd_busy" /\ sdpc' = "idle") =>
             /\ availableConnections' = {} /\ busyConnections' = {}
             /\ PoolValues(busyConnections) \subseteq closedClients'
             /\ PoolKeys(busyConnections) \subseteq closedConns'
             /\ closedClients \subseteq closedClients'
             /\ closedConns \subseteq closedConns'
             /\ ret'.op = "Shutdown" /\ ret'.val = "ok"
             /\ ~crashed'
       /\ (sdpc # sdpc' /\ availableConnections = {}
             /\ busyConnections = {}) =>
             /\ closedClients' = closedClients
             /\ closedConns' = closedConns
      ]_vars

\* Shutdown has returned after closing a backend of each pool and an inbound
\* connection
C14_Witness ==
    /\ ret.op = "Shutdown" /\ AllIdle
    /\ availableConnections = {} /\ busyConnections = {}
    /\ closedConns # {}
    /\ Cardinality(closedClients) >= 2

\* C15: IsExhausted is false whenever the proxy is elastic; for a proxy that
\* is not elastic it is true exactly when the available pool is empty and
\* has a capacity greater than zero.
C15_IsExhaustedDefinition ==
    /\ Elastic => ~IsExhausted
    /\ ~Elastic =>
          (IsExhausted <=>
              (PoolSize(availableConnections) = 0 /\ availableCap > 0))

\* a Connect on a non-elastic proxy found the empty pool without a capacity
\* not exhausted and went on to Pop
C15_Witness ==
    /\ ~Elastic /\ availableCap = 0 /\ availableConnections = {}
    /\ ~IsExhausted
    /\ \E c \in Conns : pc[c] = "c_pop"

C17_HookErrorKeepsOriginal ==
    (Relayed /\ relay.hookErr.set) => relay.out = relay.in

\* C18: the steps of a PassThrough call are done in the order inbound read,
\* ingress hooks, Send, Receive, egress hooks, write submission, each once:
\* a call in flight has done none or the first four, and a call that
\* returned after any I/O has done all six in this order.
C18_StepsInOrder ==
    /\ \A c \in Conns :
          /\ io[c] \in {<<>>, SubSeq(FullTrace, 1, 4)}
          /\ pc[c] \in {"pt_reconnect", "pt_put", "pt_egress"} =>
                io[c] = SubSeq(FullTrace, 1, 4)
          /\ pc[c] \in {"idle", "pt_cast", "pt_exchange"} => io[c] = <<>>
    /\ ret.op = "PassThrough" =>
          /\ ret.io \in {<<>>, FullTrace}
          /\ ret.val \in {"ok", "ServerSendFailed"} => ret.io = FullTrace

\* a call did all six steps around a reconnection and its write was refused
C18_Witness ==
    /\ ret.op = "PassThrough" /\ ret.val = "ServerSendFailed"
    /\ ret.io = FullTrace
    /\ PoolGet(busyConnections, ret.conn) > poolSize

\* C19: the payload given to a hook stage carries the bytes of its stage
\* (the request read, the response received) and, whenever the read or the
\* Receive returned an error, a non-empty description of it.
C19_PayloadCarriesError ==
    Relayed =>
        /\ relay.payload.name = StageField
        /\ relay.payload.value = relay.in
        /\ relay.inErr.set => relay.payload.error # ""

\* C20: a Connect that has taken a backend from the available pool returns
\* success with the inbound connection bound to that backend, whatever the
\* liveness check reported.
C20_HealthNeverAborts ==
    relay.stage = "health" =>
        /\ ret.op = "Connect" /\ ret.conn = relay.conn
        /\ ret.val = "ok"
        /\ PoolGet(busyConnections, relay.conn) = relay.client
        /\ relay.client # NilClient

\* Connect took the last backend of a bounded non-elastic pool: the check
\* reported exhaustion and the connection is bound
C20_Witness ==
    /\ relay.stage = "health" /\ ret.health = "PoolExhausted"
    /\ ~Elastic /\ availableCap > 0 /\ availableConnections = {}
    /\ ret.val = "ok"
    /\ PoolGet(busyConnections, relay.conn) = relay.client

\* the step of Connect or Disconnect that calls IsHealty, for connection c,
\* on an actual backend
ChecksHealth(c) ==
    /\ pc[c] \in {"c_put", "d_put"} /\ pc'[c] = "idle"
    /\ client[c] # NilClient

\* C21: IsHealty returns PoolExhausted exactly when the proxy is not elastic
\* and the available pool is empty with a capacity greater than zero, and no
\* error otherwise, whatever the backend's IsConnected reports; it returns
\* the backend it was given, and the step that calls it changes the pools
\* only by the Put that follows the call.
C21_IsHealtyResult ==
    [][\A c \in Conns : ChecksHealth(c) =>
          /\ ret'.health =
                IF ~Elastic /\ PoolSize(availableConnections) = 0
                            /\ availableCap > 0
                THEN "PoolExhausted" ELSE "none"
          /\ relay'.stage \in {"health", "recheck"}
          /\ relay'.client = client[c]
          /\ pc[c] = "c_put" =>
                /\ availableConnections' = availableConnections
                /\ PoolRemove(busyConnections', c) = busyConnections
          /\ pc[c] = "d_put" =>
                /\ busyConnections' = busyConnections
                /\ availableConnections \subseteq availableConnections'
                /\ availableConnections' \subseteq
                      availableConnections \cup {<<client[c], client[c]>>}
      ]_vars

\* Connect was given a backend that is not connected: IsHealty returned no
\* error
C21_Witness ==
    /\ relay.stage = "health" /\ ~relay.connected
    /\ ret.op = "Connect" /\ ret.health = "none" /\ ret.val = "ok"
    /\ relay.client # NilClient

\* C22: GetID yields distinct identifiers for distinct (network, address,
\* seed) triples and the same identifier for equal triples.
C22_DistinctTriplesDistinctIDs ==
    ids.ida # NoID =>
        /\ ids.a # ids.b => ids.ida # ids.idb
        /\ ids.a = ids.b => ids.ida = ids.idb

\* C23: the busy pool never holds a binding whose value is a nil client, and
\* a Connect that returned success has bound its connection to a backend.
C23_NoNilBinding ==
    /\ \A e \in busyConnections : e[2] # NilClient
    /\ (ret.op = "Connect" /\ ret.val = "ok") =>
          PoolGet(busyConnections, ret.conn) \notin {Absent, NilClient}

\* C24: once Shutdown has returned, a call that was in flight and goes on
\* constructs no backend and leaves both pools empty.
C24_ShutdownIsFinal ==
    [][Drained =>
          /\ nextId' = nextId
          /\ availableConnections' = {}
          /\ busyConnections' = {}
      ]_vars

\* Receive did not report zero bytes with the end of the stream
NoEndOfStream(r) == ~(r.received = 0 /\ r.err.set /\ r.err.eof)

\* no pool changes and no backend is constructed or closed
PoolsUntouched ==
    /\ availableConnections' = availableConnections
    /\ busyConnections' = busyConnections
    /\ nextId' = nextId
    /\ closedClients' = closedClients

\* C25: a PassThrough call whose Receive does not report zero bytes with the
\* end of the stream changes neither pool and constructs and closes no
\* backend in any of its steps, and never enters the reconnection.
C25_PassThroughSelfTransition ==
    [][\A c \in Conns :
          /\ (\/ pc[c] = "idle" /\ pc'[c] = "pt_cast"
              \/ pc[c] = "pt_cast" /\ pc'[c] = "pt_exchange") =>
                PoolsUntouched
          /\ (pc[c] = "pt_exchange" /\ pc'[c] # pc[c]
                 /\ NoEndOfStream(received'[c])) =>
                /\ pc'[c] = "pt_egress"
                /\ PoolsUntouched
          /\ (pc[c] = "pt_egress" /\ pc'[c] # pc[c]
                 /\ NoEndOfStream(received[c])) =>
                /\ ret'.op = "PassThrough" /\ ret'.conn = c
                /\ PoolGet(busyConnections', c) = client[c]
                /\ PoolsUntouched
      ]_vars

\* a call whose read, hooks, Receive and write all failed has returned and
\* the connection is bound to a backend the pool started with
C25_Witness ==
    /\ ret.op = "PassThrough" /\ ret.val = "ServerSendFailed"
    /\ relay.stage = "egress" /\ relay.hookErr.set /\ relay.outErr.set
    /\ relay.inErr.set /\ ~relay.inErr.eof
    /\ PoolGet(busyConnections, ret.conn) \in 1..poolSize
    /\ closedClients = {}
====
